---- MODULE Spec2Model ----
(***************************************************************************)
(* Model of tiktokurl_extraction.py: the batch enrichment of an Excel      *)
(* sheet of TikTok video URLs (TikTokVideoProcessor.process_excel_data and *)
(* main).  Text is modelled as a sequence of one-character strings where   *)
(* the code looks inside it (URLs, usernames, follower texts) and as a     *)
(* sequence of opaque chunks elsewhere; the empty string is << >>.         *)
(***************************************************************************)
EXTENDS Integers, Sequences, FiniteSets, TLC

\* ---------------------------------------------------------------- bounds
\* One run of the batch is explored on sheets of MaxRows - 1 and MaxRows rows.
MaxRows == 6
\* Repeated runs are explored on sheets of 1 .. SmallRows rows,
SmallRows == 2
\* the program being started at most MaxRuns times on the same sheet.
MaxRuns == 2

\* ------------------------------------------------------------- constants
\* The periodic save: (index + 1) % 5 == 0.
CheckpointInterval == 5

\* ------------------------------------------------------------ cell values
\* pandas' missing value in a text column and in a numeric column.
NaNStr == <<"NaN">>
NaNNum == -1
EmptyStr == << >>

TextCols == {"url_video", "tiktok_username", "video_description",
             "publish_date", "transcription", "extraction_error"}
NumCols == {"followers_count", "video_likes", "video_views"}
AllCols == TextCols \cup NumCols

\* pd.isna(row[col])
isna(col, v) == IF col \in NumCols THEN v = NaNNum ELSE v = NaNStr

\* The defaults of the columns the sheet may lack.
new_columns ==
    [tiktok_username |-> EmptyStr, followers_count |-> 0, video_likes |-> 0,
     video_views |-> 0, video_description |-> EmptyStr,
     publish_date |-> EmptyStr, transcription |-> EmptyStr,
     extraction_error |-> EmptyStr]

\* ------------------------------------------------------------------ text
Digits == <<"0", "1", "2", "3", "4", "5", "6", "7", "8", "9">>
IsDigit(c) == \E d \in 1..10 : Digits[d] = c
DigitVal(c) == (CHOOSE d \in 1..10 : Digits[d] = c) - 1

Letters == {"a", "b", "c", "d", "e", "i", "k", "m", "o", "t", "u", "v",
            "A", "B", "C", "K", "M"}
\* A character of the class [\w.]
IsWordDot(c) == IsDigit(c) \/ c \in Letters \/ c = "_" \/ c = "."

\* s[from:] and s[:-1]
Drop(s, k) == IF k >= Len(s) THEN << >> ELSE SubSeq(s, k + 1, Len(s))
StartsWith(s, p) == Len(p) <= Len(s) /\ SubSeq(s, 1, Len(p)) = p

\* The longest run of [\w.] characters at the head of s.
RECURSIVE WordRun(_)
WordRun(s) ==
    IF s = << >> \/ ~IsWordDot(Head(s)) THEN << >>
    ELSE <<Head(s)>> \o WordRun(Tail(s))

\* str.replace('@', '')
RECURSIVE RemoveAt(_)
RemoveAt(s) ==
    IF s = << >> THEN << >>
    ELSE (IF Head(s) = "@" THEN << >> ELSE <<Head(s)>>) \o RemoveAt(Tail(s))

NoMatch == <<"<None>">>

\* re.search of  lit(@[\w.]+)  (groupAt) or  lit@([\w.]+)  in s: group 1 of the
\* leftmost match, NoMatch when there is none.
RECURSIVE re_search(_, _, _)
re_search(lit, groupAt, s) ==
    IF s = << >> THEN NoMatch
    ELSE IF StartsWith(s, lit \o <<"@">>)
            /\ WordRun(Drop(s, Len(lit) + 1)) # << >>
         THEN (IF groupAt THEN <<"@">> ELSE << >>)
              \o WordRun(Drop(s, Len(lit) + 1))
         ELSE re_search(lit, groupAt, Tail(s))

\* The three patterns, in the order they are tried.
patterns ==
    << [lit |-> << >>, groupAt |-> FALSE],
       [lit |-> <<"t", "i", "k", "t", "o", "k", ".", "c", "o", "m", "/">>,
        groupAt |-> TRUE],
       [lit |-> <<"v", "i", "d", "e", "o", "/">>, groupAt |-> TRUE] >>

\* _extract_username_from_url: [ok, value]; not ok stands for the ValueError,
\* value is then str(e).
RECURSIVE extract_from(_, _)
extract_from(k, url) ==
    IF k > Len(patterns)
    THEN [ok |-> FALSE,
          value |-> <<"Could not extract username from: ">> \o url]
    ELSE IF re_search(patterns[k].lit, patterns[k].groupAt, url) # NoMatch
         THEN [ok |-> TRUE,
               value |-> RemoveAt(re_search(patterns[k].lit,
                                            patterns[k].groupAt, url))]
         ELSE extract_from(k + 1, url)

\* Variant: no match is not an error, the handle is the empty string.
extract_username_from_url_lenient(url) ==
    IF extract_from(1, url).ok THEN extract_from(1, url)
    ELSE [ok |-> TRUE, value |-> EmptyStr]

extract_username_from_url(url) ==
    extract_from(1, url)

\* url.split('/')[-1]
RECURSIVE LastSegment(_)
LastSegment(s) ==
    IF \A i \in 1..Len(s) : s[i] # "/" THEN s
    ELSE LastSegment(Tail(s))

video_id(url) == LastSegment(url)

\* ------------------------------------------------- _convert_count_to_number
upper(c) == CASE c = "k" -> "K" [] c = "m" -> "M" [] c = "b" -> "B"
              [] c = "a" -> "A" [] c = "c" -> "C" [] OTHER -> c
str_upper(s) == [i \in 1..Len(s) |-> upper(s[i])]

RECURSIVE lstrip(_)
lstrip(s) == IF s # << >> /\ Head(s) = " " THEN lstrip(Tail(s)) ELSE s
RECURSIVE rstrip(_)
rstrip(s) ==
    IF s # << >> /\ s[Len(s)] = " " THEN rstrip(SubSeq(s, 1, Len(s) - 1))
    ELSE s
strip(s) == rstrip(lstrip(s))

multipliers == [K |-> 1000, M |-> 1000000, B |-> 1000000000]

AllDigits(s) == \A i \in 1..Len(s) : IsDigit(s[i])
RECURSIVE DigitsVal(_)
DigitsVal(s) ==
    IF s = << >> THEN 0
    ELSE 10 * DigitsVal(SubSeq(s, 1, Len(s) - 1)) + DigitVal(s[Len(s)])
RECURSIVE Pow10(_)
Pow10(k) == IF k = 0 THEN 1 ELSE 10 * Pow10(k - 1)

DotPos(s) == IF \E i \in 1..Len(s) : s[i] = "."
             THEN CHOOSE i \in 1..Len(s) : s[i] = "." /\ \A j \in 1..(i-1) : s[j] # "."
             ELSE 0

\* int(s): digits only (a ValueError otherwise).
int_ok(s) == s # << >> /\ AllDigits(s)

\* float(s) for unsigned decimal text: digits with at most one point and at
\* least one digit (a ValueError otherwise), as the fraction num / den.
float_ok(s) ==
    IF DotPos(s) = 0 THEN int_ok(s)
    ELSE /\ AllDigits(SubSeq(s, 1, DotPos(s) - 1))
         /\ AllDigits(Drop(s, DotPos(s)))
         /\ Len(s) > 1
float_num(s) ==
    IF DotPos(s) = 0 THEN DigitsVal(s)
    ELSE DigitsVal(SubSeq(s, 1, DotPos(s) - 1) \o Drop(s, DotPos(s)))
float_den(s) ==
    IF DotPos(s) = 0 THEN 1 ELSE Pow10(Len(s) - DotPos(s))

convert_stripped(s) ==
    IF s = << >> THEN 0                                  \* IndexError
    ELSE IF s[Len(s)] \in DOMAIN multipliers
         THEN IF float_ok(SubSeq(s, 1, Len(s) - 1))
              THEN (float_num(SubSeq(s, 1, Len(s) - 1)) * multipliers[s[Len(s)]])
                   \div float_den(SubSeq(s, 1, Len(s) - 1))
              ELSE 0                                     \* ValueError
         ELSE IF int_ok(s) THEN DigitsVal(s) ELSE 0      \* ValueError

convert_count_to_number(count_str) ==
    IF count_str = << >> THEN 0
    ELSE convert_stripped(str_upper(strip(count_str)))


\* -------------------------------------------------------------- the sheet
\* str(i) for a row number
Str(i) == IF i < 10 THEN <<Digits[i + 1]>>
          ELSE <<Digits[(i \div 10) + 1], Digits[(i % 10) + 1]>>

TikTokHost == <<"t", "i", "k", "t", "o", "k", ".", "c", "o", "m", "/">>
\* tiktok.com/@u<i>/video/<i>  and a share link with no handle in it
GoodUrl(i) == TikTokHost \o <<"@", "u">> \o Str(i)
              \o <<"/", "v", "i", "d", "e", "o", "/">> \o Str(i)
BadUrl(i) == TikTokHost \o <<"t", "/">> \o Str(i)

OldError == <<"old error">>

\* A row of the sheet as read_excel would deliver it after an earlier run.
Full(i) ==
    [url_video |-> GoodUrl(i), tiktok_username |-> <<"u">> \o Str(i),
     followers_count |-> 57, video_likes |-> 10, video_views |-> 200,
     video_description |-> <<"desc">>, publish_date |-> <<"2024-01-15">>,
     transcription |-> <<"text">>, extraction_error |-> NaNStr]
Fresh(url) ==
    [url_video |-> url, tiktok_username |-> NaNStr,
     followers_count |-> NaNNum, video_likes |-> NaNNum,
     video_views |-> NaNNum, video_description |-> NaNStr,
     publish_date |-> NaNStr, transcription |-> NaNStr,
     extraction_error |-> NaNStr]

\* The kinds of rows: only the transcript missing (and an error left by the
\* earlier run), nothing filled in yet, metadata half filled, followers zero,
\* complete, only the username missing, nothing filled in and a URL with no
\* handle, complete with an old error.
RowKinds == 1..8
SheetRow(kind, i) ==
    CASE kind = 1 -> [Full(i) EXCEPT !.transcription = NaNStr,
                                     !.extraction_error = OldError]
      [] kind = 2 -> Fresh(GoodUrl(i))
      [] kind = 3 -> [Full(i) EXCEPT !.video_views = 0,
                                     !.video_description = NaNStr]
      [] kind = 4 -> [Full(i) EXCEPT !.followers_count = 0]
      [] kind = 5 -> Full(i)
      [] kind = 6 -> [Full(i) EXCEPT !.tiktok_username = NaNStr]
      [] kind = 7 -> Fresh(BadUrl(i))
      [] kind = 8 -> [Full(i) EXCEPT !.extraction_error = OldError]

\* The sheets the runs start from: the kinds of rows in rotation from any
\* starting kind, with or without the extraction_error column.
Restrict(r, cols) == [c \in cols |-> r[c]]
Sheet(n, first, cols) ==
    [i \in 1..n |->
        Restrict(SheetRow(((first + i - 2) % Cardinality(RowKinds)) + 1, i),
                 cols)]
SheetsOf(sizes) ==
    { Sheet(n, first, cols) :
        n \in sizes, first \in RowKinds,
        cols \in {AllCols, AllCols \ {"extraction_error"}} }
Sheets == SheetsOf({MaxRows - 1, MaxRows})
\* Small sheets: the rotation cut into consecutive windows of n kinds.
WindowStarts(n) == {1 + n * k : k \in 0..((Cardinality(RowKinds) - 1) \div n)}
SmallSheets ==
    UNION { { Sheet(n, first, AllCols) : first \in WindowStarts(n) } :
            n \in 1..SmallRows }

\* ----------------------------------------------------------------- state
VARIABLES
    store,          \* the Excel file at paths.url_data: a sequence of rows
    audio_files,    \* the video ids whose audio_<id>.mp3 is in audio_folder
    df,             \* the DataFrame in memory
    index,          \* the loop variable of df.iterrows()
    row,            \* the loop's snapshot of the current row
    needs,          \* needs_username, needs_followers, needs_video_info, needs_transcription
    username,       \* local of the loop body
    whisper_model,  \* self._whisper_model is not None
    pc,             \* position in main / process_excel_data
    exc,            \* the exception process_excel_data raised (NaNStr: none)
    closed,         \* number of driver.quit() calls of this process
    run,            \* how many times the program was started
    calls,          \* history: collaborator calls of the current attempt
    written,        \* history: the cells the current attempt wrote, col -> value
    degraded,       \* history: the steps of the current attempt whose fetch
                    \*          failed and came back as the default tuple
    log,            \* history: one entry per row visited in this run
    flushes         \* history: index + 1 at each completed df.to_excel

vars == <<store, audio_files, df, index, row, needs, username, whisper_model,
          pc, exc, closed, run, calls, written, degraded, log, flushes>>

NoNeeds == [username |-> FALSE, followers |-> FALSE, video_info |-> FALSE,
            transcription |-> FALSE]

NoCells == [c \in {} |-> 0]

InitOn(sheets) ==
    /\ store \in sheets
    /\ audio_files = {}
    /\ df = << >>
    /\ index = 0
    /\ row = Fresh(<< >>)
    /\ needs = NoNeeds
    /\ username = NaNStr
    /\ whisper_model = FALSE
    /\ pc = "read"
    /\ exc = NaNStr
    /\ closed = 0
    /\ run = 1
    /\ calls = << >>
    /\ written = NoCells
    /\ degraded = {}
    /\ log = << >>
    /\ flushes = << >>

Init == InitOn(Sheets)
InitRuns == InitOn(SmallSheets)

\* ------------------------------------------------------- the Excel medium
\* read_excel: an empty cell, and a cell holding '', come back as NaN.
read_cell(col, v) == IF col \in TextCols /\ v = EmptyStr THEN NaNStr ELSE v

\* Variant: the first data row is taken as a second header and dropped.
load_frame_headless(file) ==
    [i \in 1..(Len(file) - 1) |->
        [c \in AllCols |->
            IF c \in DOMAIN file[i + 1] THEN read_cell(c, file[i + 1][c])
            ELSE new_columns[c]]]

\* pd.read_excel followed by the creation of the missing columns.
load_frame(file) ==
    [i \in 1..Len(file) |->
        [c \in AllCols |->
            IF c \in DOMAIN file[i] THEN read_cell(c, file[i][c])
            ELSE new_columns[c]]]

\* -------------------------------------------------------------- resolver
needs_username(r) ==
    isna("tiktok_username", r.tiktok_username) \/ r.tiktok_username = EmptyStr
\* Variant: the follower count is fetched for every processed row.
needs_followers_always(r) == TRUE

needs_followers(r) ==
    isna("followers_count", r.followers_count) \/ r.followers_count = 0
needs_video_info(r) ==
    \/ isna("video_likes", r.video_likes) \/ r.video_likes = 0
    \/ isna("video_views", r.video_views) \/ r.video_views = 0
    \/ isna("video_description", r.video_description)
    \/ r.video_description = EmptyStr
    \/ isna("publish_date", r.publish_date) \/ r.publish_date = EmptyStr
\* Variant: the transcript is fetched for every processed row.
needs_transcription_always(r) == TRUE

needs_transcription(r) ==
    isna("transcription", r.transcription) \/ r.transcription = EmptyStr

Needs(r) == [username |-> needs_username(r), followers |-> needs_followers(r),
             video_info |-> needs_video_info(r),
             transcription |-> needs_transcription(r)]
\* Variant: every row is processed, whatever it needs.
AnyNeeded_always(nd) == TRUE

\* any([needs_username, needs_followers, needs_video_info, needs_transcription])
AnyNeeded(nd) ==
    nd.username \/ nd.followers \/ nd.video_info \/ nd.transcription


\* ---------------------------------------------------------- collaborators
\* What the outside world can answer.  str(e) of the exceptions:
NavError == <<"navigation error">>
DownloadError == <<"download error">>
TranscribeError == <<"transcribe error">>
StoreError == <<"store error">>
ReadError == <<"read error">>

\* The text of the followers element, when the page shows one.
FollowerTexts == { <<"1", "2", ".", "3", "k">>, <<"a", "b", "c">>, << >> }
ProfileOutcomes ==
    {[kind |-> "get_raises", text |-> << >>],
     [kind |-> "wait_raises", text |-> << >>]}
    \cup {[kind |-> "text", text |-> t] : t \in FollowerTexts}

\* get_profile_info: driver.get is outside the try, the wait and the
\* conversion are inside it.
get_profile_info(o) ==
    IF o.kind = "get_raises" THEN [raised |-> TRUE, msg |-> NavError, value |-> 0]
    ELSE IF o.kind = "wait_raises"
         THEN [raised |-> FALSE, msg |-> EmptyStr, value |-> 0]
         ELSE [raised |-> FALSE, msg |-> EmptyStr,
               value |-> convert_count_to_number(o.text)]

\* get_video_info: the extracted info has every key, only like_count, or
\* extract_info raises.
VideoOutcomes == {"full", "likes_only", "raises"}
\* Variant: a failed fetch hands back missing values, not the defaults.
get_video_info_missing(o) ==
    CASE o = "full" ->
            [likes |-> 11, views |-> 201, description |-> <<"new desc">>,
             publish_date |-> <<"2024-02-01">>]
      [] o = "likes_only" ->
            [likes |-> 11, views |-> 0, description |-> EmptyStr,
             publish_date |-> EmptyStr]
      [] o = "raises" ->
            [likes |-> NaNNum, views |-> NaNNum, description |-> NaNStr,
             publish_date |-> NaNStr]

get_video_info(o) ==
    CASE o = "full" ->
            [likes |-> 11, views |-> 201, description |-> <<"new desc">>,
             publish_date |-> <<"2024-02-01">>]
      [] o = "likes_only" ->
            [likes |-> 11, views |-> 0, description |-> EmptyStr,
             publish_date |-> EmptyStr]
      [] o = "raises" ->
            [likes |-> 0, views |-> 0, description |-> EmptyStr,
             publish_date |-> EmptyStr]

\* df.at[idx, col] = v   (idx is the 0-based label of the row)
df_at(frame, idx, col, v) == [frame EXCEPT ![idx + 1][col] = v]

\* Several df.at writes into one row.
df_at_cells(frame, idx, cells) ==
    [frame EXCEPT ![idx + 1] =
        [c \in AllCols |-> IF c \in DOMAIN cells THEN cells[c] ELSE @[c]]]

\* Variant: only the metadata fields the row lacks are written.
video_info_cells_missing(r, info) ==
    LET all == [video_likes |-> info.likes, video_views |-> info.views,
                video_description |-> info.description,
                publish_date |-> info.publish_date]
        lacking == {c \in DOMAIN all :
                      isna(c, r[c]) \/ r[c] = new_columns[c]}
    IN  [c \in lacking |-> all[c]]

\* The four df.at writes of the metadata step: all four fields, whatever
\* the row held.
video_info_cells(r, info) ==
    [video_likes |-> info.likes, video_views |-> info.views,
     video_description |-> info.description,
     publish_date |-> info.publish_date]

\* Variants of the except branch: the message is not recorded; the row is
\* put back to the loop's snapshot before the message is recorded; the row is
\* blanked as process_video_data blanks its result.
row_except_dropped(frame, idx, msg) == frame
row_except_rollback(frame, idx, msg) ==
    [frame EXCEPT ![idx + 1] = [row EXCEPT !.extraction_error = msg]]
row_except_blank(frame, idx, msg) ==
    [frame EXCEPT ![idx + 1] =
        [c \in AllCols |->
            IF c = "url_video" THEN frame[idx + 1][c]
            ELSE IF c = "extraction_error" THEN msg
            ELSE new_columns[c]]]

\* The except branch of the row's try: df.at[index, 'extraction_error'] = str(e)
row_except(frame, idx, msg) == df_at(frame, idx, "extraction_error", msg)

\* Variant: the error of the earlier attempt is kept.
clear_error_kept(frame, idx) == frame

\* df.at[index, 'extraction_error'] = ''  at the end of the try body
clear_error(frame, idx) == df_at(frame, idx, "extraction_error", EmptyStr)

\* (index + 1) % 5 == 0
save_due(idx) == (idx + 1) % CheckpointInterval = 0

\* _download_and_convert_audio on the audio folder `files`: the artifact of
\* an earlier attempt is returned as it is; otherwise yt_dlp downloads (and
\* may raise) and ffmpeg, whose exit status is not looked at, writes the mp3
\* or does not.
AudioOutcomes == {"ok", "download_raises", "ffmpeg_fails"}
download_and_convert_audio(files, vid, o) ==
    IF vid \in files
    THEN [raised |-> FALSE, files |-> files, call |-> "audio_reuse"]
    ELSE CASE o = "download_raises" ->
                [raised |-> TRUE, files |-> files, call |-> "audio_download"]
           [] o = "ffmpeg_fails" ->
                [raised |-> FALSE, files |-> files, call |-> "audio_download"]
           [] o = "ok" ->
                [raised |-> FALSE, files |-> files \cup {vid},
                 call |-> "audio_download"]

\* _transcribe_audio: the model is loaded on first use; whisper raises on a
\* path that is no file, and may raise on any other.
TranscribeOutcomes(loaded) ==
    {"text", "empty", "raises"} \cup (IF loaded THEN {} ELSE {"load_raises"})
transcribe_audio(exists, o) ==
    IF o \in {"raises", "load_raises"} \/ ~exists
    THEN [raised |-> TRUE, text |-> EmptyStr,
          loaded |-> (o # "load_raises")]
    ELSE [raised |-> FALSE,
          text |-> (IF o = "text" THEN <<"spoken words">> ELSE EmptyStr),
          loaded |-> TRUE]

\* if os.path.exists(audio_path): os.remove(audio_path)
remove_audio(files, vid) == files \ {vid}

\* -------------------------------------------------------------- actions
Wrote(w, col, v) == (col :> v) @@ w

\* The end of one iteration of the loop: the frame it leaves, the history
\* entry of the row, and the step to the next row.
EndRow(frame, before, status, step, msg, cs, w) ==
    /\ df' = frame
    /\ calls' = cs
    /\ written' = w
    /\ log' = Append(log, [idx |-> index, status |-> status, step |-> step,
                           msg |-> msg, calls |-> cs, before |-> before,
                           written |-> w,
                           degraded |-> IF status = "skipped" THEN {}
                                        ELSE degraded])
    /\ index' = index + 1
    /\ pc' = "iter"

\* The exception e leaves the try body at `step`.
Raise(frame, step, msg, cs) ==
    EndRow(row_except(frame, index, msg), row, "raised", step, msg, cs,
           Wrote(written, "extraction_error", msg))

\* pd.read_excel and the creation of the missing columns; a failure is
\* logged and raised again.
ReadExcel ==
    /\ pc = "read"
    /\ \E ok \in BOOLEAN :
         IF ok
         THEN /\ df' = load_frame(store)
              /\ pc' = "iter"
              /\ exc' = exc
         ELSE /\ df' = df
              /\ pc' = "raised"
              /\ exc' = ReadError
    /\ index' = 0
    /\ UNCHANGED <<store, audio_files, row, needs, username, whisper_model,
                   closed, run, calls, written, degraded, log, flushes>>

\* The head of the loop body: the snapshot, the four needs, and the skip of
\* a row that needs nothing.
NextRow ==
    /\ pc = "iter"
    /\ index < Len(df)
    /\ row' = df[index + 1]
    /\ needs' = Needs(df[index + 1])
    /\ degraded' = {}
    /\ IF AnyNeeded(Needs(df[index + 1]))
       THEN /\ pc' = "username"
            /\ calls' = << >>
            /\ written' = NoCells
            /\ UNCHANGED <<df, index, log>>
       ELSE EndRow(df, df[index + 1], "skipped", "none", EmptyStr, << >>,
                   NoCells)
    /\ UNCHANGED <<store, audio_files, username, whisper_model, exc, closed,
                   run, flushes>>

StepUsername ==
    /\ pc = "username"
    /\ IF needs.username
       THEN IF extract_username_from_url(row.url_video).ok
            THEN /\ username' = extract_username_from_url(row.url_video).value
                 /\ df' = df_at(df, index, "tiktok_username",
                                extract_username_from_url(row.url_video).value)
                 /\ written' = Wrote(written, "tiktok_username",
                                extract_username_from_url(row.url_video).value)
                 /\ calls' = Append(calls, "identity")
                 /\ pc' = "followers"
                 /\ UNCHANGED <<index, log>>
            ELSE /\ Raise(df, "identity",
                          extract_username_from_url(row.url_video).value,
                          Append(calls, "identity"))
                 /\ UNCHANGED username
       ELSE /\ username' = row.tiktok_username
            /\ pc' = "followers"
            /\ UNCHANGED <<df, index, log, calls, written>>
    /\ UNCHANGED <<store, audio_files, row, needs, whisper_model, exc, closed,
                   run, degraded, flushes>>

StepFollowers ==
    /\ pc = "followers"
    /\ IF needs.followers
       THEN \E o \in ProfileOutcomes :
              IF get_profile_info(o).raised
              THEN /\ Raise(df, "profile", get_profile_info(o).msg,
                            Append(calls, "profile"))
                   /\ UNCHANGED degraded
              ELSE /\ df' = df_at(df, index, "followers_count",
                                  get_profile_info(o).value)
                   /\ UNCHANGED degraded
                   /\ written' = Wrote(written, "followers_count",
                                       get_profile_info(o).value)
                   /\ calls' = Append(calls, "profile")
                   /\ pc' = "video_info"
                   /\ UNCHANGED <<index, log>>
       ELSE /\ pc' = "video_info"
            /\ UNCHANGED <<df, index, log, calls, written, degraded>>
    /\ UNCHANGED <<store, audio_files, row, needs, username, whisper_model,
                   exc, closed, run, flushes>>

StepVideoInfo ==
    /\ pc = "video_info"
    /\ IF needs.video_info
       THEN \E o \in VideoOutcomes :
              /\ df' = df_at_cells(df, index,
                                   video_info_cells(row, get_video_info(o)))
              /\ written' = video_info_cells(row, get_video_info(o)) @@ written
              /\ degraded' = IF o = "raises"
                             THEN degraded \cup {"metadata"}
                             ELSE degraded
              /\ calls' = Append(calls, "metadata")
       ELSE UNCHANGED <<df, calls, written, degraded>>
    /\ pc' = "audio"
    /\ UNCHANGED <<store, audio_files, index, row, needs, username,
                   whisper_model, exc, closed, run, log, flushes>>

StepAudio ==
    /\ pc = "audio"
    /\ IF needs.transcription
       THEN \E o \in AudioOutcomes :
              LET r == download_and_convert_audio(
                           audio_files, video_id(row.url_video), o)
              IN  IF r.raised
                  THEN /\ Raise(df, "audio", DownloadError,
                                Append(calls, r.call))
                       /\ UNCHANGED audio_files
                  ELSE /\ audio_files' = r.files
                       /\ calls' = Append(calls, r.call)
                       /\ pc' = "transcribe"
                       /\ UNCHANGED <<df, index, log, written>>
       ELSE /\ pc' = "commit"
            /\ UNCHANGED <<df, index, log, calls, written, audio_files>>
    /\ UNCHANGED <<store, row, needs, username, whisper_model, exc, closed,
                   run, degraded, flushes>>

StepTranscribe ==
    /\ pc = "transcribe"
    /\ \E o \in TranscribeOutcomes(whisper_model) :
         LET r == transcribe_audio(video_id(row.url_video) \in audio_files, o)
         IN  /\ whisper_model' = (whisper_model \/ r.loaded)
             /\ IF r.raised
                THEN /\ Raise(df, "transcribe", TranscribeError,
                              Append(calls, "transcribe"))
                     /\ UNCHANGED audio_files
                ELSE /\ df' = df_at(df, index, "transcription", r.text)
                     /\ written' = Wrote(written, "transcription", r.text)
                     /\ audio_files' =
                            remove_audio(audio_files, video_id(row.url_video))
                     /\ calls' = Append(calls, "transcribe")
                     /\ pc' = "commit"
                     /\ UNCHANGED <<index, log>>
    /\ UNCHANGED <<store, row, needs, username, exc, closed, run, degraded,
                   flushes>>

\* The end of the try body: the error is cleared, and on every 5th row the
\* frame is saved, still inside the try.
Commit ==
    /\ pc = "commit"
    /\ LET cleared == clear_error(df, index)
           w == Wrote(written, "extraction_error", EmptyStr)
       IN  IF save_due(index)
           THEN \E ok \in BOOLEAN :
                  IF ok
                  THEN /\ store' = cleared
                       /\ flushes' = Append(flushes, index + 1)
                       /\ EndRow(cleared, row, "ok", "none", EmptyStr, calls, w)
                  ELSE /\ Raise(cleared, "save", StoreError, calls)
                       /\ UNCHANGED <<store, flushes>>
           ELSE /\ EndRow(cleared, row, "ok", "none", EmptyStr, calls, w)
                /\ UNCHANGED <<store, flushes>>
    /\ UNCHANGED <<audio_files, row, needs, username, whisper_model, exc,
                   closed, run, degraded>>

\* The save after the loop; its failure is logged and raised again.
FinalSave ==
    /\ pc = "iter"
    /\ index = Len(df)
    /\ \E ok \in BOOLEAN :
         IF ok
         THEN /\ store' = df
              /\ flushes' = Append(flushes, index)
              /\ pc' = "returned"
              /\ exc' = exc
         ELSE /\ pc' = "raised"
              /\ exc' = StoreError
              /\ UNCHANGED <<store, flushes>>
    /\ UNCHANGED <<audio_files, df, index, row, needs, username,
                   whisper_model, closed, run, calls, written, degraded, log>>

\* Variant: the session is released only when the batch returned.
Close_only_on_return ==
    /\ pc = "returned"
    /\ closed' = closed + 1
    /\ pc' = "exit"
    /\ UNCHANGED <<store, audio_files, df, index, row, needs, username,
                   whisper_model, exc, run, calls, written, degraded, log,
                   flushes>>

\* main: the finally clause, after process_excel_data returned or raised.
Close ==
    /\ pc \in {"returned", "raised"}
    /\ closed' = closed + 1
    /\ pc' = "exit"
    /\ UNCHANGED <<store, audio_files, df, index, row, needs, username,
                   whisper_model, exc, run, calls, written, degraded, log,
                   flushes>>

\* The operator starts the program again: a new process on the same file
\* and the same folders.
Restart ==
    /\ pc = "exit"
    /\ run < MaxRuns
    /\ run' = run + 1
    /\ df' = << >>
    /\ index' = 0
    /\ row' = Fresh(<< >>)
    /\ needs' = NoNeeds
    /\ username' = NaNStr
    /\ whisper_model' = FALSE
    /\ pc' = "read"
    /\ exc' = NaNStr
    /\ closed' = 0
    /\ calls' = << >>
    /\ written' = NoCells
    /\ degraded' = {}
    /\ log' = << >>
    /\ flushes' = << >>
    /\ UNCHANGED <<store, audio_files>>

\* One run of the program.
Next ==
    \/ ReadExcel
    \/ NextRow
    \/ StepUsername
    \/ StepFollowers
    \/ StepVideoInfo
    \/ StepAudio
    \/ StepTranscribe
    \/ Commit
    \/ FinalSave
    \/ Close

Spec == Init /\ [][Next]_vars

\* Repeated runs on the same sheet.
NextRuns == Next \/ Restart

SpecRuns == InitRuns /\ [][NextRuns]_vars


\* ------------------------------------------------------------ properties
Visited == 1..Len(log)
Range(f) == {f[x] : x \in DOMAIN f}

\* The seven derived fields, and a row all of whose groups are present.
DataCols == AllCols \ {"url_video", "extraction_error"}
Present(c, v) == IF c \in NumCols THEN v # NaNNum /\ v # 0
                 ELSE v # NaNStr /\ v # EmptyStr
FullyPopulated(r) == \A c \in DataCols : Present(c, r[c])

\* No periodic save of this run has failed.
SavesWorked == \A i \in Visited : log[i].step # "save"
LastFlush == IF flushes = << >> THEN 0 ELSE flushes[Len(flushes)]

\* Saves after rows 5, 10, ... and once more after the last of n rows.
ExpectedFlushes(n) ==
    [k \in 1..(n \div CheckpointInterval) |-> CheckpointInterval * k] \o <<n>>

\* C1: when a run over n rows returns (every save having worked), the frame
\* was saved after each 5th row and once more after the last row, whatever
\* the outcome of the rows.
CheckpointCadence ==
    (pc = "returned" /\ SavesWorked) => flushes = ExpectedFlushes(Len(df))

\* C2: at every point of a run at most N - 1 = 4 rows updated by the run are
\* not yet in the saved file.
AtMostFourRowsUnsaved ==
    SavesWorked =>
        Cardinality({i \in Visited : log[i].status = "ok" /\ i > LastFlush})
            <= CheckpointInterval - 1

\* C3: a failed save, periodic or final, leaves process_excel_data as an
\* exception: no row is visited after it and no row takes it as its error.
SaveFailureIsFatal ==
    \A i \in Visited :
        log[i].step = "save" =>
            /\ exc = StoreError
            /\ Len(log) = i
            /\ df[i].extraction_error # StoreError

\* C4: failures of rows never end the batch: the loop is left only through
\* the final save, after every row was visited once and in order; each row
\* that raised carries its message, and the saved file is the frame.
RowErrorsNeverAbort ==
    /\ \A i \in Visited : log[i].idx = i - 1
    /\ pc \in {"iter", "returned"} => index = Len(log)
    /\ pc = "raised" /\ exc # ReadError =>
           exc = StoreError /\ Len(log) = Len(df)
    /\ pc = "returned" =>
           /\ Len(log) = Len(df)
           /\ \A i \in Visited :
                  log[i].status = "raised" =>
                      df[i].extraction_error = log[i].msg
           /\ store = df
           /\ LastFlush = Len(df)

RowErrorsWitness ==
    /\ pc = "returned"
    /\ \E i, j, k \in Visited :
           /\ log[i].status = "raised" /\ log[i].step = "identity"
           /\ log[j].status = "raised" /\ log[j].step = "audio"
           /\ log[k].status = "raised" /\ log[k].step = "transcribe"

\* C5: a failure anywhere in get_profile_info comes back as 0: whenever the
\* profile fetch was called the row's followers_count was written, and no
\* row's attempt ends at the profile step.
ProfileFetchNeverRaises ==
    \A i \in Visited :
        "profile" \in Range(log[i].calls) =>
            /\ "followers_count" \in DOMAIN log[i].written
            /\ log[i].step # "profile"

\* C6: once a row that needed its transcript has been processed, its audio
\* artifact is gone from the audio folder, whether transcription worked or
\* the transcript step raised.
TranscriptStepEntered(e) ==
    "audio_download" \in Range(e.calls) \/ "audio_reuse" \in Range(e.calls)
AudioArtifactRemoved ==
    \A i \in Visited :
        needs_transcription(log[i].before) /\ TranscriptStepEntered(log[i]) =>
            video_id(log[i].before.url_video) \notin audio_files

\* C7: when the transcript step raises, extraction_error is the message and
\* every field the earlier steps of the attempt wrote holds what they wrote.
TranscriptFailureKeepsEarlierWrites ==
    \A i \in Visited :
        log[i].status = "raised" /\ log[i].step \in {"audio", "transcribe"} =>
            /\ df[i].extraction_error = log[i].msg
            /\ \A c \in DOMAIN log[i].written \ {"extraction_error"} :
                   df[i][c] = log[i].written[c]

TranscriptFailureWitness ==
    \E i \in Visited :
        /\ log[i].status = "raised" /\ log[i].step = "transcribe"
        /\ DataCols \ {"transcription"} \subseteq DOMAIN log[i].written
        /\ df[i].video_likes = 11 /\ log[i].before.video_likes = NaNNum
        /\ df[i].followers_count = 12300

\* The steps whose failure is a failure of the row: identity and transcript.
RowFailures == {"identity", "audio", "transcribe"}

\* C8 as stated: when an attempt raises, extraction_error is set and all the
\* derived fields are as they were before the attempt.
RaiseLeavesFieldsUnchanged ==
    \A i \in Visited :
        log[i].status = "raised" /\ log[i].step \in RowFailures =>
            /\ df[i].extraction_error = log[i].msg
            /\ \A c \in DataCols : df[i][c] = log[i].before[c]

\* The fields of a step and of the steps after it.
FieldsFrom(step) ==
    CASE step = "identity" -> DataCols
      [] step = "profile" -> DataCols \ {"tiktok_username"}
      [] step \in {"audio", "transcribe"} -> {"transcription"}
      [] OTHER -> {}

\* C8 amended: when an attempt raises, extraction_error is set to the message
\* and the fields of the step that raised and of the later steps are as they
\* were before the attempt.
RaiseLeavesLaterFieldsUnchanged ==
    \A i \in Visited :
        log[i].status = "raised" =>
            /\ df[i].extraction_error = log[i].msg
            /\ \A c \in FieldsFrom(log[i].step) : df[i][c] = log[i].before[c]

RaiseAfterWriteWitness ==
    \E i \in Visited :
        /\ log[i].status = "raised" /\ log[i].step = "profile"
        /\ df[i].tiktok_username # log[i].before.tiktok_username
        /\ df[i].transcription = log[i].before.transcription

\* C9: an attempt in which nothing raised leaves extraction_error empty,
\* whatever it held, also when groups were skipped or fetches degraded.
ErrorClearedWhenNothingRaises ==
    \A i \in Visited : log[i].status = "ok" => df[i].extraction_error = EmptyStr

ErrorClearedWitness ==
    \E i, j \in Visited :
        /\ log[i].status = "ok"
        /\ log[i].before.extraction_error = OldError
        /\ ~needs_username(log[i].before)
        /\ log[j].status = "ok"
        /\ "followers_count" \in DOMAIN log[j].written
        /\ df[j].followers_count = 0

\* C10: a row whose four groups are all present needs nothing, is skipped and
\* causes no collaborator call, in a first run and in any later one.
StepPcs == {"username", "followers", "video_info", "audio", "transcribe",
            "commit"}
FullRowsMakeNoCalls ==
    /\ \A i \in Visited :
           FullyPopulated(log[i].before) =>
               /\ ~AnyNeeded(Needs(log[i].before))
               /\ log[i].status = "skipped"
               /\ log[i].calls = << >>
    /\ pc \in StepPcs => ~FullyPopulated(row)

SecondRunNoCallsWitness ==
    /\ run = 2
    /\ pc = "returned"
    /\ Len(log) >= 2
    /\ \A i \in Visited :
           FullyPopulated(log[i].before) /\ log[i].calls = << >>
    /\ \E i \in Visited : log[i].before.transcription = <<"spoken words">>

\* C11: the video-metadata group is needed exactly when at least one of
\* video_likes, video_views, video_description, publish_date is missing,
\* empty or zero; when it is needed and reached, all four fields are fetched
\* and overwritten together, and when it is not needed none is touched.
MetaCols == {"video_likes", "video_views", "video_description",
             "publish_date"}
MetadataAllOrNothing ==
    \A i \in Visited :
        LET e == log[i]
            fetched == "metadata" \in Range(e.calls)
        IN  /\ needs_video_info(e.before)
                   <=> \E c \in MetaCols : ~Present(c, e.before[c])
            /\ fetched =>
                   /\ needs_video_info(e.before)
                   /\ \A c \in MetaCols :
                          /\ c \in DOMAIN e.written
                          /\ df[i][c] = e.written[c]
            /\ ~fetched =>
                   /\ MetaCols \cap DOMAIN e.written = {}
                   /\ \A c \in MetaCols : df[i][c] = e.before[c]
            /\ e.status = "ok" /\ needs_video_info(e.before) => fetched

MetadataOverwriteWitness ==
    \E i \in Visited :
        /\ log[i].before.video_likes = 10
        /\ log[i].before.video_views = 0
        /\ "metadata" \in Range(log[i].calls)
        /\ df[i].video_likes = 11
        /\ df[i].video_views = 201

\* C12: the collaborator calls made for a row are exactly its needed groups
\* in the order identity, profile-stats, video-metadata, transcript (audio,
\* then transcription), cut off after the first step that raises; a group
\* that is present is never fetched.
GroupMissing(r, cols) == \E c \in cols : ~Present(c, r[c])
NeededSteps(r) ==
    (IF GroupMissing(r, {"tiktok_username"}) THEN <<"identity">> ELSE << >>)
    \o (IF GroupMissing(r, {"followers_count"}) THEN <<"profile">> ELSE << >>)
    \o (IF GroupMissing(r, MetaCols) THEN <<"metadata">> ELSE << >>)
    \o (IF GroupMissing(r, {"transcription"}) THEN <<"audio", "transcribe">>
        ELSE << >>)
StepsOf(cs) ==
    [k \in DOMAIN cs |-> IF cs[k] \in {"audio_download", "audio_reuse"}
                         THEN "audio" ELSE cs[k]]
IsPrefix(a, b) == Len(a) <= Len(b) /\ \A k \in DOMAIN a : a[k] = b[k]
CallsAreNeededStepsInOrder ==
    /\ \A i \in Visited :
           LET e == log[i]
               cs == StepsOf(e.calls)
               expected == NeededSteps(e.before)
           IN  /\ IsPrefix(cs, expected)
               /\ e.status = "ok" => cs = expected
               /\ e.status = "skipped" => expected = << >>
               /\ e.status = "raised" /\ e.step = "save" => cs = expected
               /\ e.status = "raised" /\ e.step # "save" =>
                      cs # << >> /\ cs[Len(cs)] = e.step
    /\ pc \in StepPcs => IsPrefix(StepsOf(calls), NeededSteps(row))

CallsCutOffWitness ==
    \E i, j \in Visited :
        /\ log[i].status = "ok"
        /\ Present("followers_count", log[i].before.followers_count)
        /\ log[i].calls = <<"audio_download", "transcribe">>
        /\ log[j].status = "raised"
        /\ log[j].calls = <<"identity", "profile", "metadata",
                            "audio_download">>

\* C13: every row that ends a run errored (its attempt raised, so that its
\* extraction_error is not empty) or partially updated (some group still
\* empty or zero) is reported as needed by the resolver when the saved sheet
\* is loaded by the next run.
ErroredOrPartialRowsNeededNextRun ==
    pc = "returned" =>
        \A i \in Visited :
            (\/ log[i].status = "raised"
             \/ log[i].status = "ok" /\ ~FullyPopulated(df[i]))
                => AnyNeeded(Needs(load_frame(store)[i]))

\* C14: in main, close is called exactly once after process_excel_data
\* ends, when it returned and when it raised: no release before the batch
\* ends, the release is due in both end states, and the program exits with
\* one release made.
ReleasedExactlyOnce ==
    /\ pc = "exit" => closed = 1
    /\ pc # "exit" => closed = 0
    /\ pc \in {"returned", "raised"} => ENABLED Close

ReleasedAfterRaiseWitness ==
    /\ pc = "exit"
    /\ closed = 1
    /\ exc = StoreError

\* C15: when the identity step is needed for a row and no pattern matches
\* its URL (the URL has no "@" followed by a handle character), the row ends
\* with extraction_error set to the identity failure message, the only call
\* made for the row is the identity one (no profile-stats fetch), and the
\* batch goes on with the next row.
HasHandle(url) ==
    \E k \in 1..(Len(url) - 1) : url[k] = "@" /\ IsWordDot(url[k + 1])
IdentityFailed(e) ==
    /\ GroupMissing(e.before, {"tiktok_username"})
    /\ ~HasHandle(e.before.url_video)
IdentityFailureEndsRowOnly ==
    /\ \A i \in Visited :
           IdentityFailed(log[i]) =>
               /\ log[i].status = "raised"
               /\ log[i].step = "identity"
               /\ df[i].extraction_error =
                      <<"Could not extract username from: ">>
                          \o log[i].before.url_video
               /\ log[i].calls = <<"identity">>
               /\ df[i].followers_count = log[i].before.followers_count
               /\ Len(log) = i /\ i < Len(df) =>
                      index = i /\ pc \in {"iter"} \cup StepPcs
    /\ pc = "raised" => exc \in {ReadError, StoreError}
    /\ pc \in StepPcs \ {"username"} =>
           ~GroupMissing(row, {"tiktok_username"}) \/ HasHandle(row.url_video)

IdentityFailureWitness ==
    \E i, j \in Visited :
        /\ i < j
        /\ IdentityFailed(log[i])
        /\ log[j].status = "ok"
        /\ "profile" \in Range(log[j].calls)

\* C16: when the video-metadata fetch of a row fails, the row's four
\* metadata fields are set to 0, 0, '' and '', the failure is not recorded
\* in extraction_error (the attempt ends without error, or with the error
\* of a later step), and the transcript step of the same row still runs
\* when the transcript is needed.
MetadataFailureDegrades ==
    /\ \A i \in Visited :
           "metadata" \in log[i].degraded =>
               /\ df[i].video_likes = 0
               /\ df[i].video_views = 0
               /\ df[i].video_description = EmptyStr
               /\ df[i].publish_date = EmptyStr
               /\ log[i].status \in {"ok", "raised"}
               /\ log[i].status = "ok" => df[i].extraction_error = EmptyStr
               /\ log[i].status = "raised" =>
                      log[i].step \in {"audio", "transcribe", "save"}
               /\ needs_transcription(log[i].before) =>
                      /\ log[i].calls # << >>
                      /\ \E k \in DOMAIN log[i].calls :
                             /\ log[i].calls[k] = "metadata"
                             /\ k < Len(log[i].calls)
                             /\ StepsOf(log[i].calls)[k + 1] = "audio"
    /\ "metadata" \in degraded /\ pc \in StepPcs =>
           /\ pc \in {"audio", "transcribe", "commit"}
           /\ df[index + 1].extraction_error = row.extraction_error

MetadataFailureWitness ==
    \E i \in Visited :
        /\ "metadata" \in log[i].degraded
        /\ df[i].video_likes = 0
        /\ needs_transcription(log[i].before)
        /\ log[i].status = "ok"
        /\ df[i].transcription = <<"spoken words">>

\* C17: the audio materializer is idempotent by video id: when the audio
\* file of the id exists it returns without downloading or transcoding and
\* leaves the work area as it is; otherwise it downloads and transcodes, and
\* either the audio file exists when it returns or it raises.
AudioMaterializerContract ==
    /\ pc = "audio" /\ needs.transcription =>
           \A o \in AudioOutcomes :
               LET vid == video_id(row.url_video)
                   r == download_and_convert_audio(audio_files, vid, o)
               IN  IF vid \in audio_files
                   THEN /\ ~r.raised
                        /\ r.call = "audio_reuse"
                        /\ r.files = audio_files
                   ELSE /\ r.call = "audio_download"
                        /\ r.raised \/ vid \in r.files
    /\ pc = "transcribe" => video_id(row.url_video) \in audio_files

\* C18: a run never changes a row's url_video, never adds, deletes or
\* reorders rows (in the frame or in the saved sheet, where row i keeps the
\* URL the sheet was built with), and leaves every field of a row whose
\* groups are all present, its extraction_error included, as it was loaded.
SameRowsAndUrls(a, b) ==
    /\ Len(a) = Len(b)
    /\ \A i \in DOMAIN a : a[i].url_video = b[i].url_video
RowsUrlsAndFullRowsUnchanged ==
    /\ \A i \in DOMAIN store : store[i].url_video \in {GoodUrl(i), BadUrl(i)}
    /\ df # << >> =>
           /\ SameRowsAndUrls(df, store)
           /\ \A i \in Visited :
                  /\ df[i].url_video = log[i].before.url_video
                  /\ FullyPopulated(log[i].before) => df[i] = log[i].before
    /\ pc = "returned" =>
           \A i \in Visited :
               FullyPopulated(log[i].before) =>
                   \A c \in DOMAIN store[i] : store[i][c] = log[i].before[c]

FullRowWithErrorKeptWitness ==
    /\ pc = "returned"
    /\ \E i, j \in Visited :
           /\ FullyPopulated(log[i].before)
           /\ log[i].before.extraction_error = OldError
           /\ store[i].extraction_error = OldError
           /\ log[j].status = "ok"
           /\ store[j].transcription = <<"spoken words">>

\* C19 as stated: in every run, a derived field that holds a non-empty,
\* non-zero value before the run is never replaced by an empty or zero value
\* by that run.
NoPopulatedFieldLost ==
    \A i \in Visited :
        \A c \in DataCols :
            Present(c, log[i].before[c]) => Present(c, df[i][c])

\* C19, amended: in every run, a populated username, follower count or
\* transcript is never changed, and the metadata fields are never changed
\* when all four are populated; the populated fields of a partly filled
\* metadata group are overwritten by the re-fetch, by defaults when it
\* fails.
KeptIfPresent(c, b, r) == Present(c, b[c]) => r[c] = b[c]
PopulatedGroupsKept ==
    \A i \in Visited :
        LET b == log[i].before
            r == df[i]
        IN  /\ KeptIfPresent("tiktok_username", b, r)
            /\ KeptIfPresent("followers_count", b, r)
            /\ KeptIfPresent("transcription", b, r)
            /\ ~GroupMissing(b, MetaCols) =>
                   \A c \in MetaCols : r[c] = b[c]

PopulatedGroupsKeptWitness ==
    /\ run = 2
    /\ \E i \in Visited :
           /\ "metadata" \in log[i].degraded
           /\ Present("tiktok_username", log[i].before.tiktok_username)
           /\ Present("followers_count", log[i].before.followers_count)
           /\ df[i].followers_count = log[i].before.followers_count
           /\ df[i].video_likes = 0

====
